---- MODULE Spec2Model ----
(***************************************************************************)
(* A model of mc_world_merger.py: the region-file codec (McaFile.read_file *)
(* and McaFile.write), the chunk merge (McaFile.merge with the three merge *)
(* rules) and the per-dimension driver (RegionFinder).                     *)
(*                                                                         *)
(* Python values are modelled as follows.                                  *)
(*   bytes / bytearray : a record [len, nz]; nz maps the indices of the    *)
(*       non-zero bytes to their values (1..255), every other index below  *)
(*       len holds 0.  Two byte strings are equal iff the records are.     *)
(*   Chunk object      : an index into heap, a sequence of Chunk records;  *)
(*       two names for one index are two references to one object.         *)
(*   dict              : a sequence of <<key, value>> pairs in insertion   *)
(*       order (Python dicts iterate in insertion order).                  *)
(*   list              : a sequence.                                       *)
(***************************************************************************)
EXTENDS Integers, Sequences, FiniteSets, TLC

VARIABLES
    pc,         \* position of the running operation
    disk,       \* the file system: path -> bytes of the file
    heap,       \* the Chunk objects alive, by reference
    target,     \* chunk_map of the McaFile merged into (self in merge/write)
    source,     \* chunk_map of the McaFile merged from (other in merge)
    rule,       \* the merge rule in use
    snap,       \* values recorded before an operation, to state its effect
    run         \* RegionFinder's progress: dimension, lists, prompts, writes

vars == <<pc, disk, heap, target, source, rule, snap, run>>

(***************************************************************************)
(* Bounds of the model.                                                    *)
(***************************************************************************)
MaxTs == 1        \* timestamps drawn are TsOf(0), ..., TsOf(MaxTs)
MaxSize == 2      \* sector counts drawn are 1..MaxSize
MaxPairs == 2     \* file pairs handed to RegionFinder.merge

(***************************************************************************)
(* Program constants.                                                      *)
(***************************************************************************)
sector_size == 4096

Min(a, b) == IF a < b THEN a ELSE b
Max(a, b) == IF a > b THEN a ELSE b

(***************************************************************************)
(* bytes and bytearray.                                                    *)
(***************************************************************************)
EmptyFcn == [i \in {} |-> 0]

\* bytearray(n): n zero bytes
bytearray(n) == [len |-> n, nz |-> EmptyFcn]

\* b[i] for 0 <= i < len(b)
ByteAt(b, i) == IF i \in DOMAIN b.nz THEN b.nz[i] ELSE 0

\* b[i] = v for 0 <= i < len(b), 0 <= v <= 255
SetByte(b, i, v) ==
    LET dom == IF v = 0 THEN DOMAIN b.nz \ {i} ELSE DOMAIN b.nz \cup {i}
    IN  [len |-> b.len,
         nz  |-> [j \in dom |-> IF j = i THEN v ELSE b.nz[j]]]

\* Python's clamping of a slice bound against a length n
SliceBound(i, n) == IF i < 0 THEN Max(i + n, 0) ELSE Min(i, n)

\* b[start:stop]
Slice(b, start, stop) ==
    LET s == SliceBound(start, b.len)
        e == SliceBound(stop, b.len)
        keep == {k \in DOMAIN b.nz : s <= k /\ k < e}
    IN  [len |-> Max(e - s, 0),
         nz  |-> [j \in {k - s : k \in keep} |-> b.nz[j + s]]]

\* res[start:stop] = data  (the slice is replaced by data, whatever its length)
SliceAssign(res, start, stop, data) ==
    LET s == SliceBound(start, res.len)
        e == Max(SliceBound(stop, res.len), s)
        shift == data.len - (e - s)
        head == {k \in DOMAIN res.nz : k < s}
        tail == {k \in DOMAIN res.nz : k >= e}
        dom == head \cup {k + s : k \in DOMAIN data.nz} \cup {k + shift : k \in tail}
    IN  [len |-> res.len + shift,
         nz  |-> [j \in dom |->
                    IF j < s THEN res.nz[j]
                    ELSE IF j < s + data.len THEN data.nz[j - s]
                    ELSE res.nz[j - shift]]]

(***************************************************************************)
(* dict: insertion-ordered sequence of <<key, value>>.                     *)
(***************************************************************************)
DictKeys(d) == {d[k][1] : k \in 1..Len(d)}

\* key in d
DictHas(d, key) == key \in DictKeys(d)

\* d[key], for a key in d
DictGet(d, key) == d[CHOOSE k \in 1..Len(d) : d[k][1] = key][2]

\* d[key] = value: an existing key keeps its position, a new key goes last
DictSet(d, key, value) ==
    IF DictHas(d, key)
    THEN [k \in 1..Len(d) |-> IF d[k][1] = key THEN <<key, value>> ELSE d[k]]
    ELSE Append(d, <<key, value>>)

(***************************************************************************)
(* class Chunk                                                             *)
(***************************************************************************)
Chunk(timestamp, location, size, chunk_data) ==
    [timestamp |-> timestamp, location |-> location,
     size |-> size, chunk_data |-> chunk_data]

(***************************************************************************)
(* The merge rules: is_allowed_to_merge(current_chunk, new_chunk).         *)
(***************************************************************************)
Rules == {"always", "never", "last-modified"}

MergeRuleAlways(current_chunk, new_chunk) == TRUE

\* MergeRuleNever with a fault: the new chunk is let in
NeverMutant(current_chunk, new_chunk) == TRUE

MergeRuleNever(current_chunk, new_chunk) == FALSE

\* MergeRuleNewestChunks with a fault: ties go to the new chunk
NewestMutant(current_chunk, new_chunk) ==
    new_chunk.timestamp >= current_chunk.timestamp

MergeRuleNewestChunks(current_chunk, new_chunk) ==
    new_chunk.timestamp > current_chunk.timestamp

\* rule_mapping[args.rule].is_allowed_to_merge(current_chunk, new_chunk)
is_allowed_to_merge(r, current_chunk, new_chunk) ==
    CASE r = "always" -> MergeRuleAlways(current_chunk, new_chunk)
      [] r = "never" -> MergeRuleNever(current_chunk, new_chunk)
      [] r = "last-modified" -> MergeRuleNewestChunks(current_chunk, new_chunk)

(***************************************************************************)
(* class McaFile.  chunk_map is a dict from the byte position of a slot's  *)
(* entry in the header tables to a reference to its Chunk.                 *)
(***************************************************************************)

\* McaFile.merge(self, other, rule): the chunk_map of self afterwards.
\* The Chunk objects of other are stored by reference, not copied.
RECURSIVE MergeLoop(_, _, _, _, _)
MergeLoop(self_map, other_map, k, r, h) ==
    IF k > Len(other_map) THEN self_map
    ELSE LET pos == other_map[k][1]
             new_chunk == other_map[k][2]
         IN  IF DictHas(self_map, pos)
             THEN LET current_chunk == DictGet(self_map, pos)
                  IN  IF is_allowed_to_merge(r, h[current_chunk], h[new_chunk])
                      THEN MergeLoop(DictSet(self_map, pos, new_chunk),
                                     other_map, k + 1, r, h)
                      ELSE MergeLoop(self_map, other_map, k + 1, r, h)
             ELSE MergeLoop(DictSet(self_map, pos, new_chunk),
                            other_map, k + 1, r, h)

merge(self_map, other_map, r, h) == MergeLoop(self_map, other_map, 1, r, h)

\* McaFile.update_chunk_locations(chunk_map): the heap afterwards.
RECURSIVE UpdateLoop(_, _, _, _)
UpdateLoop(chunk_map, k, current_address, h) ==
    IF k > Len(chunk_map) THEN h
    ELSE LET chunk == chunk_map[k][2]
         IN  UpdateLoop(chunk_map, k + 1, current_address + h[chunk].size,
                        [h EXCEPT ![chunk].location = current_address])

\* update_chunk_locations with a fault: current_address is never advanced
UpdateMutant(chunk_map, h) ==
    [c \in 1..Len(h) |->
        IF \E k \in 1..Len(chunk_map) : chunk_map[k][2] = c
        THEN [h[c] EXCEPT !.location = 2]
        ELSE h[c]]

update_chunk_locations(chunk_map, h) == UpdateLoop(chunk_map, 1, 2, h)

\* set_timestamp with a fault: the second byte is taken from bits 8..15, as
\* the third is
TimestampMutant(timestamp, pos, chunk) ==
    LET b0 == SetByte(timestamp, pos, (chunk.timestamp \div 16777216) % 256)
        b1 == SetByte(b0, pos + 1, (chunk.timestamp \div 256) % 256)
        b2 == SetByte(b1, pos + 2, (chunk.timestamp \div 256) % 256)
    IN  SetByte(b2, pos + 3, chunk.timestamp % 256)

\* McaFile.set_timestamp(timestamp, pos, chunk)
set_timestamp(timestamp, pos, chunk) ==
    LET b0 == SetByte(timestamp, pos, (chunk.timestamp \div 16777216) % 256)
        b1 == SetByte(b0, pos + 1, (chunk.timestamp \div 65536) % 256)
        b2 == SetByte(b1, pos + 2, (chunk.timestamp \div 256) % 256)
    IN  SetByte(b2, pos + 3, chunk.timestamp % 256)

\* McaFile.set_location(locations, pos, chunk)
set_location(locations, pos, chunk) ==
    LET b0 == SetByte(locations, pos, (chunk.location \div 65536) % 256)
        b1 == SetByte(b0, pos + 1, (chunk.location \div 256) % 256)
        b2 == SetByte(b1, pos + 2, chunk.location % 256)
    IN  SetByte(b2, pos + 3, chunk.size % 256)

\* McaFile.join(locations, timestamps, data_list, max_pos)
RECURSIVE JoinLoop(_, _, _)
JoinLoop(res, data_list, k) ==
    IF k > Len(data_list) THEN res
    ELSE LET i == data_list[k][1]
             data == data_list[k][2]
             pos == i * sector_size
         IN  JoinLoop(SliceAssign(res, pos, pos + data.len, data), data_list, k + 1)

join(locations, timestamps, data_list, max_pos) ==
    LET total_bytes == locations.len + timestamps.len + max_pos
        res0 == bytearray(total_bytes)
        res1 == SliceAssign(res0, 0, locations.len, locations)
        res2 == SliceAssign(res1, sector_size, sector_size * 2, timestamps)
    IN  JoinLoop(res2, data_list, 1)

\* The loop of McaFile.write over self.chunk_map.items(), after the
\* locations were updated.  st = [locations, timestamps, chunk_data_list,
\* max_pos].
RECURSIVE WriteLoop(_, _, _, _)
WriteLoop(chunk_map, k, h, st) ==
    IF k > Len(chunk_map) THEN st
    ELSE LET pos == chunk_map[k][1]
             chunk == h[chunk_map[k][2]]
             byte_position == (chunk.size + chunk.location - 2) * sector_size
         IN  WriteLoop(chunk_map, k + 1, h,
                [locations |-> set_location(st.locations, pos, chunk),
                 timestamps |-> set_timestamp(st.timestamps, pos, chunk),
                 chunk_data_list |->
                     DictSet(st.chunk_data_list, chunk.location, chunk.chunk_data),
                 max_pos |-> IF byte_position > st.max_pos
                             THEN byte_position ELSE st.max_pos])

\* McaFile.write(self, path): the heap afterwards and the bytes written.
write(chunk_map, h) ==
    LET h2 == update_chunk_locations(chunk_map, h)
        st == WriteLoop(chunk_map, 1, h2,
                  [locations |-> bytearray(sector_size),
                   timestamps |-> bytearray(sector_size),
                   chunk_data_list |-> <<>>,
                   max_pos |-> 0])
    IN  [heap |-> h2,
         to_write |-> join(st.locations, st.timestamps, st.chunk_data_list, st.max_pos)]

\* McaFile.bytes_to_int(arr, start, end) raises IndexError
\* (arr[start] is read for start, start + 1, ..., end)
bytes_to_int_raises(arr, start, end) == start <= end /\ end >= arr.len

\* McaFile.bytes_to_int(arr, start, end), when it does not raise.  The bytes
\* are or-ed into disjoint bit ranges of res, which adds them.
RECURSIVE BytesLoop(_, _, _, _)
BytesLoop(arr, start, end, res) ==
    IF start <= end
    THEN BytesLoop(arr, start + 1, end,
                   res + (ByteAt(arr, start) % 256) * 2 ^ ((end - start) * 8))
    ELSE res

bytes_to_int(arr, start, end) == BytesLoop(arr, start, end, 0)

\* The iteration for i of the loop of McaFile.read_file: raised tells that
\* it raised IndexError; items holds the <<i, Chunk>> it stored, if any.
ReadEntry(locations, timestamps, chunk_data_array, i) ==
    IF \/ bytes_to_int_raises(timestamps, i, i + 3)
       \/ bytes_to_int_raises(locations, i, i + 2)
       \/ i + 3 >= locations.len
    THEN [raised |-> TRUE, items |-> <<>>]
    ELSE LET timestamp == bytes_to_int(timestamps, i, i + 3)
             location == bytes_to_int(locations, i, i + 2)
             size == ByteAt(locations, i + 3) % 256
         IN  IF size = 0
             THEN [raised |-> FALSE, items |-> <<>>]
             ELSE LET chunk_data_start == (location - 2) * sector_size
                      chunk_data_end == (location + size - 2) * sector_size
                      chunk_data == Slice(chunk_data_array,
                                          chunk_data_start, chunk_data_end)
                  IN  [raised |-> FALSE,
                       items |-> <<<<i, Chunk(timestamp, location, size, chunk_data)>>>>]

\* the elements of a finite set of integers, ascending
RECURSIVE Ascending(_)
Ascending(S) ==
    IF S = {} THEN <<>>
    ELSE LET m == CHOOSE x \in S : \A y \in S : x <= y
         IN  <<m>> \o Ascending(S \ {m})

\* McaFile.read_file, given the bytes of the file: raised, or the chunk_map
\* as a dict from position to Chunk value (the caller allocates the objects).
\* The iterations of its loop, i in range(0, len(locations), 4), read only
\* the bytes and store under their own key i: the loop raises iff one of
\* them does, and otherwise leaves the items of those that store one, in
\* ascending order of i.
read_file(bytes_data) ==
    LET locations == Slice(bytes_data, 0, sector_size)
        timestamps == Slice(bytes_data, sector_size, sector_size * 2)
        chunk_data_array == Slice(bytes_data, sector_size * 2, bytes_data.len)
        range == {4 * n : n \in 0..((locations.len + 3) \div 4 - 1)}
        entry(i) == ReadEntry(locations, timestamps, chunk_data_array, i)
    IN  IF \E i \in range : entry(i).raised
        THEN [raised |-> TRUE, items |-> <<>>]
        ELSE LET stored == Ascending({i \in range : Len(entry(i).items) > 0})
             IN  [raised |-> FALSE,
                  items |-> [k \in 1..Len(stored) |-> entry(stored[k]).items[1]]]

\* McaFile(file_path): the Chunk objects of the decoded items are allocated
\* on the heap h; chunk_map refers to them.
McaFile(bytes_data, h) ==
    LET made(got) ==
            [raised |-> got.raised,
             heap |-> h \o [k \in 1..Len(got.items) |-> got.items[k][2]],
             chunk_map |-> [k \in 1..Len(got.items) |-> <<got.items[k][1], Len(h) + k>>]]
    IN  made(read_file(bytes_data))


(***************************************************************************)
(* Inputs.  A region file or a decoded McaFile is described by a function  *)
(* from the header positions used to a slot that is absent, or present     *)
(* with a timestamp index t, a sector count and a location.  Payloads are  *)
(* told apart by a tag in their first and last byte.                       *)
(***************************************************************************)
Positions == <<0, 4092>>     \* the first and the last entry of the tables

\* a timestamp whose four bytes differ (t * 0x01020304), increasing with t
TsOf(t) == t * 16909060

\* a payload of size sectors
Payload(tag, size) ==
    [len |-> size * sector_size,
     nz  |-> (0 :> tag) @@ ((size * sector_size - 1) :> tag)]

\* the tag of the payload that owner (1: target, 2: source) holds at Positions[k]
TagOf(owner, k) == 16 * owner + k

Absent == [present |-> FALSE, t |-> 0, size |-> 1]

SlotChoices ==
    {Absent} \cup
    {[present |-> TRUE, t |-> t, size |-> s] : t \in 0..MaxTs, s \in 1..MaxSize}

\* unused sectors in front of every payload of a file
Gaps == {0, 1}

FileChoices == [slots : [1..Len(Positions) -> SlotChoices], gap : Gaps]

\* The items a McaFile holds after decoding a file laid out as choice says:
\* ascending positions; the payload of a slot lies gap sectors behind the
\* end of the previous one.
RECURSIVE ItemsOf(_, _, _, _)
ItemsOf(owner, choice, k, next_free) ==
    IF k > Len(Positions) THEN <<>>
    ELSE IF ~choice.slots[k].present THEN ItemsOf(owner, choice, k + 1, next_free)
    ELSE LET c == choice.slots[k]
             location == next_free + choice.gap
         IN  <<<<Positions[k],
                 Chunk(TsOf(c.t), location, c.size, Payload(TagOf(owner, k), c.size))>>>>
             \o ItemsOf(owner, choice, k + 1, location + c.size)

\* the Chunk objects of items, allocated behind those of h, and the
\* chunk_map referring to them
Allocate(items, h) ==
    [heap |-> h \o [k \in 1..Len(items) |-> items[k][2]],
     chunk_map |-> [k \in 1..Len(items) |-> <<items[k][1], Len(h) + k>>]]

\* the dict from position to Chunk value that a chunk_map stands for
Values(chunk_map, h) ==
    [k \in 1..Len(chunk_map) |-> <<chunk_map[k][1], h[chunk_map[k][2]]>>]

\* a Slot is valid: sectorCount in 1..255, payload of sectorCount sectors,
\* timestamp below 2^32
ValidChunk(c) ==
    /\ c.size \in 1..255
    /\ c.chunk_data.len = c.size * sector_size
    /\ c.timestamp >= 0      \* and below 2^31, as every integer of the model

NoRun == [k |-> 0]
NoSnap == [taken |-> FALSE]

(***************************************************************************)
(* SpecMerge: one merge-and-write cycle on two decoded files, as the body  *)
(* of the loop of RegionFinder.merge runs it: target.merge(source, rule),  *)
(* then target.write(path).                                                *)
(***************************************************************************)
InitMerge ==
    \E tc \in FileChoices, sc \in FileChoices, r \in Rules :
        LET t == Allocate(ItemsOf(1, tc, 1, 2), <<>>)
            s == Allocate(ItemsOf(2, sc, 1, 2), t.heap)
        IN  /\ pc = "decoded"
            /\ heap = s.heap
            /\ target = t.chunk_map
            /\ source = s.chunk_map
            /\ rule = r
            /\ disk = [to |-> bytearray(0)]
            /\ snap = NoSnap
            /\ run = NoRun

\* target.merge(source, rule)
Merge ==
    /\ pc = "decoded"
    /\ target' = merge(target, source, rule, heap)
    /\ snap' = [taken |-> TRUE,
                base |-> Values(target, heap),
                incoming |-> Values(source, heap)]
    /\ pc' = "merged"
    /\ UNCHANGED <<disk, heap, source, rule, run>>

\* target.write(pair.to_file)
Write ==
    /\ pc = "merged"
    /\ \E w \in {write(target, heap)} :
           /\ heap' = w.heap
           /\ disk' = [disk EXCEPT !.to = w.to_write]
    /\ pc' = "written"
    /\ UNCHANGED <<target, source, rule, snap, run>>

NextMerge == Merge \/ Write

SpecMerge == InitMerge /\ [][NextMerge]_vars


(***************************************************************************)
(* Claims about the merge-and-write cycle, under SpecMerge.                *)
(***************************************************************************)
AfterMerge == pc \in {"merged", "written"}

Both == DictKeys(snap.base) \cap DictKeys(snap.incoming)

OnlyIncoming == DictKeys(snap.incoming) \ DictKeys(snap.base)

Merged(pos) == heap[DictGet(target, pos)]

SameContent(a, b) == a.timestamp = b.timestamp /\ a.chunk_data = b.chunk_data

\* C3: across merge then write, every Slot of incoming keeps its timestamp,
\* sectorOffset, sectorCount and payload, and incoming keeps its keys and
\* their order.
C3_IncomingUnaffected ==
    AfterMerge => Values(source, heap) = snap.incoming

\* C4: after a merge with MergeRuleNewestChunks, a slot present in both has
\* incoming's timestamp and payload iff incoming's timestamp is greater than
\* base's, and base's original ones otherwise (equal timestamps keep base).
C4_NewestWins ==
    (AfterMerge /\ rule = "last-modified") =>
        \A pos \in Both :
            LET b == DictGet(snap.base, pos)
                i == DictGet(snap.incoming, pos)
            IN  /\ SameContent(Merged(pos), i) <=> i.timestamp > b.timestamp
                /\ ~(i.timestamp > b.timestamp) => SameContent(Merged(pos), b)

C4_Witness ==
    /\ pc = "merged" /\ rule = "last-modified"
    /\ \E pos \in Both :
          DictGet(snap.incoming, pos).timestamp = DictGet(snap.base, pos).timestamp
    /\ \E pos \in Both :
          DictGet(snap.incoming, pos).timestamp > DictGet(snap.base, pos).timestamp

\* C5: after a merge with MergeRuleNever, a slot present in both keeps base's
\* timestamp and payload, and a slot present only in incoming is in the
\* result with incoming's timestamp and payload.
C5_NeverPreserves ==
    (AfterMerge /\ rule = "never") =>
        /\ \A pos \in Both : SameContent(Merged(pos), DictGet(snap.base, pos))
        /\ \A pos \in OnlyIncoming :
              /\ DictHas(target, pos)
              /\ SameContent(Merged(pos), DictGet(snap.incoming, pos))

C5_Witness ==
    /\ pc = "merged" /\ rule = "never"
    /\ \E pos \in Both :
          DictGet(snap.incoming, pos).timestamp > DictGet(snap.base, pos).timestamp
    /\ OnlyIncoming # {}

\* the keys of a dict, in its iteration order
KeySeq(d) == [k \in 1..Len(d) |-> d[k][1]]

\* the keys of d that satisfy keep(_), in the order of d
RECURSIVE KeysWhere(_, _, _)
KeysWhere(d, k, keep) ==
    IF k > Len(d) THEN <<>>
    ELSE (IF d[k][1] \in keep THEN <<d[k][1]>> ELSE <<>>) \o KeysWhere(d, k + 1, keep)

RECURSIVE SumSizes(_, _)
SumSizes(chunk_map, k) ==
    IF k > Len(chunk_map) THEN 0
    ELSE heap[chunk_map[k][2]].size + SumSizes(chunk_map, k + 1)

\* the sectors a chunk occupies
Sectors(c) == c.location .. (c.location + c.size - 1)

\* C6: encoding gives the first Slot in iteration order sectorOffset 2 and
\* each later one the previous offset + sectorCount; the order is base's key
\* order followed by the incoming-only keys in incoming's order; the sector
\* ranges do not overlap and leave no gap; the buffer is 8192 + 4096 * (sum
\* of the sectorCounts) bytes long and its location table holds the offsets.
C6_Compaction ==
    pc = "written" =>
        /\ KeySeq(target) =
              KeySeq(snap.base) \o KeysWhere(snap.incoming, 1, OnlyIncoming)
        /\ \A k \in 1..Len(target) :
              LET c == heap[target[k][2]]
              IN  /\ c.location =
                        IF k = 1 THEN 2
                        ELSE heap[target[k - 1][2]].location + heap[target[k - 1][2]].size
                  /\ bytes_to_int(disk.to, target[k][1], target[k][1] + 2) = c.location
                  /\ ByteAt(disk.to, target[k][1] + 3) = c.size
        /\ \A j, k \in 1..Len(target) :
              j # k => Sectors(heap[target[j][2]]) \cap Sectors(heap[target[k][2]]) = {}
        /\ UNION {Sectors(heap[target[k][2]]) : k \in 1..Len(target)}
              = 2 .. (1 + SumSizes(target, 1))
        /\ disk.to.len = 2 * sector_size + sector_size * SumSizes(target, 1)

C6_Witness ==
    /\ pc = "written"
    /\ Len(target) = 2
    /\ OnlyIncoming # {}
    /\ KeySeq(target)[1] > KeySeq(target)[2]
    /\ \E pos \in Both : Merged(pos).size # DictGet(snap.base, pos).size
    /\ \E k \in 1..Len(snap.base) : snap.base[k][2].location # 2


(***************************************************************************)
(* SpecCodec: a region file is decoded (McaFile(path)), encoded again      *)
(* (write) and the bytes written are decoded once more.  The first McaFile *)
(* is either decoded from the bytes of a file, well-formed or not, or is a *)
(* McaFile as a merge leaves it, its keys in either order.                 *)
(***************************************************************************)

\* The header tables of a file laid out as choice says, its first payload
\* placed from sector origin on.  st = [locations, timestamps].
RECURSIVE HeaderOf(_, _, _, _)
HeaderOf(items, k, origin, st) ==
    IF k > Len(items) THEN st
    ELSE LET pos == items[k][1]
             chunk == [items[k][2] EXCEPT !.location = @ - 2 + origin]
         IN  HeaderOf(items, k + 1, origin,
                [locations |-> set_location(st.locations, pos, chunk),
                 timestamps |-> set_timestamp(st.timestamps, pos, chunk)])

\* the payloads of items, each at its sector
RECURSIVE PayloadsOf(_, _, _)
PayloadsOf(items, k, res) ==
    IF k > Len(items) THEN res
    ELSE LET chunk == items[k][2]
             at == chunk.location * sector_size
         IN  PayloadsOf(items, k + 1,
                SliceAssign(res, at, at + chunk.chunk_data.len, chunk.chunk_data))

\* the sectors the file of items needs, header included
SectorsOf(items) ==
    IF Len(items) = 0 THEN 2
    ELSE items[Len(items)][2].location + items[Len(items)][2].size

\* how much of the file is there
Cuts == {"nothing", "one byte", "location table", "header less a byte",
         "header", "all less a sector", "all less a byte", "all"}

CutLen(cut, full) ==
    CASE cut = "nothing" -> 0
      [] cut = "one byte" -> 1
      [] cut = "location table" -> sector_size
      [] cut = "header less a byte" -> 2 * sector_size - 1
      [] cut = "header" -> 2 * sector_size
      [] cut = "all less a sector" -> full - sector_size
      [] cut = "all less a byte" -> full - 1
      [] cut = "all" -> full

\* sector the first payload is placed from; 0 gives reserved sector offsets
Origins == {0, 2}

\* the bytes of a file: laid out as choice says, cut to a length
RawFile(owner, choice, origin, cut) ==
    LET items == ItemsOf(owner, choice, 1, 2)
        full == SectorsOf(items) * sector_size
        hd == HeaderOf(items, 1, origin,
                 [locations |-> bytearray(sector_size),
                  timestamps |-> bytearray(sector_size)])
        whole == PayloadsOf(items, 1,
                    SliceAssign(SliceAssign(bytearray(full), 0, sector_size, hd.locations),
                                sector_size, 2 * sector_size, hd.timestamps))
    IN  Slice(whole, 0, CutLen(cut, full))

\* a sequence in reverse
Reverse(seq) == [k \in 1..Len(seq) |-> seq[Len(seq) + 1 - k]]

\* the set of (slot key, timestamp, payload) triples of a chunk_map
Triples(chunk_map, h) ==
    {<<chunk_map[k][1], h[chunk_map[k][2]].timestamp, h[chunk_map[k][2]].chunk_data>> :
        k \in 1..Len(chunk_map)}

InitCodec ==
    /\ source = <<>>
    /\ rule = "always"
    /\ snap = NoSnap
    /\ run = NoRun
    /\ \/ \E choice \in FileChoices, origin \in Origins, cut \in Cuts :
             /\ pc = "start"
             /\ disk = [to |-> RawFile(1, choice, origin, cut)]
             /\ heap = <<>>
             /\ target = <<>>
       \/ \E choice \in FileChoices, descending \in BOOLEAN :
             LET items == ItemsOf(1, choice, 1, 2)
                 a == Allocate(IF descending THEN Reverse(items) ELSE items, <<>>)
             IN  /\ pc = "built"
                 /\ disk = [to |-> bytearray(0)]
                 /\ heap = a.heap
                 /\ target = a.chunk_map

\* target = McaFile(path)
ReadFile ==
    /\ pc = "start"
    /\ \E m \in {McaFile(disk.to, <<>>)} :
           IF m.raised
           THEN /\ pc' = "error"
                /\ UNCHANGED <<heap, target>>
           ELSE /\ pc' = "decoded"
                /\ heap' = m.heap
                /\ target' = m.chunk_map
    /\ UNCHANGED <<disk, source, rule, snap, run>>

\* target.write(path)
WriteFile ==
    /\ pc \in {"decoded", "built"}
    /\ \E w \in {write(target, heap)} :
           /\ heap' = w.heap
           /\ disk' = [disk EXCEPT !.to = w.to_write]
    /\ snap' = [taken |-> TRUE,
                valid |-> \A k \in 1..Len(target) : ValidChunk(heap[target[k][2]]),
                triples |-> Triples(target, heap),
                keys |-> [k \in 1..Len(target) |-> target[k][1]],
                locations |-> {heap[target[k][2]].location : k \in 1..Len(target)}]
    /\ pc' = "written"
    /\ UNCHANGED <<target, source, rule, run>>

\* McaFile(path) once more, on the bytes written
ReadBack ==
    /\ pc = "written"
    /\ \E m \in {McaFile(disk.to, <<>>)} :
           IF m.raised
           THEN /\ pc' = "error"
                /\ UNCHANGED <<heap, target>>
           ELSE /\ pc' = "reread"
                /\ heap' = m.heap
                /\ target' = m.chunk_map
    /\ UNCHANGED <<disk, source, rule, snap, run>>

NextCodec == ReadFile \/ WriteFile \/ ReadBack

SpecCodec == InitCodec /\ [][NextCodec]_vars

(***************************************************************************)
(* Claims about the codec, under SpecCodec.                                *)
(***************************************************************************)

\* C2: decoding the bytes that encoding a Container of valid Slots produced
\* yields the Container's set of (slot key, timestamp, payload) triples,
\* whatever the sector offsets and the iteration order were.
C2_RoundTrip ==
    (snap.taken /\ snap.valid /\ pc \in {"reread", "error"}) =>
        /\ pc = "reread"
        /\ Triples(target, heap) = snap.triples

C2_Witness ==
    /\ pc = "reread"
    /\ snap.valid
    /\ Cardinality(snap.triples) = 2
    /\ snap.keys[1] > snap.keys[2]
    /\ 2 \notin snap.locations
    /\ \E k \in 1..Len(target) : heap[target[k][2]].size > 1

\* C7: decoding fails for every buffer shorter than 8192 bytes: a buffer
\* that was decoded has at least 8192 bytes.
C7_ShortBufferFails ==
    pc = "decoded" => disk.to.len >= 2 * sector_size

\* C8: every Slot that decoding materialises has a payload of
\* sectorCount * 4096 bytes, with sectorCount in 1..255.
C8_PayloadLength ==
    pc = "decoded" =>
        \A k \in 1..Len(target) :
            LET c == heap[target[k][2]]
            IN  c.size \in 1..255 /\ c.chunk_data.len = c.size * sector_size


(***************************************************************************)
(* class RegionFinder.  A path is the sequence of its components; a file   *)
(* name is <<"r", x, z, extension>>, standing for r.x.z.extension.  disk    *)
(* maps a path to [exists, data].                                          *)
(***************************************************************************)
region_path == "region"

NoFile == [exists |-> FALSE, data |-> bytearray(0)]

File(data) == [exists |-> TRUE, data |-> data]

FilePair(from_file, to_file) == [from_file |-> from_file, to_file |-> to_file]

\* os.path.join(a, b) for a path a and one more component b
PathJoin(a, b) == Append(a, b)

\* file.endswith(".mca")
EndsWithMca(file) == file[4] = "mca"

\* Python values whose type matters to ==
PyStr(v) == [type |-> "str", val |-> v]
PyTuple(v) == [type |-> "tuple", val |-> v]

\* a == b: values of different types are unequal
PyEq(a, b) == a.type = b.type /\ a.val = b.val

\* x in lst, for a list lst
PyIn(x, lst) == \E k \in 1..Len(lst) : PyEq(lst[k], x)

\* MergePair with a fault: the target file is opened for writing before the
\* files are decoded, which empties it
MergePairMutant(d, pair, r) ==
    IF ~d[pair.to_file].exists \/ ~d[pair.from_file].exists
    THEN [disk |-> d, failed |-> TRUE]
    ELSE LET t == McaFile(d[pair.to_file].data, <<>>)
             s == McaFile(d[pair.from_file].data, t.heap)
             emptied == [d EXCEPT ![pair.to_file] = File(bytearray(0))]
         IN  IF t.raised \/ s.raised THEN [disk |-> emptied, failed |-> TRUE]
             ELSE [disk |-> [d EXCEPT ![pair.to_file] =
                       File(write(merge(t.chunk_map, s.chunk_map, r, s.heap),
                                  s.heap).to_write)],
                   failed |-> FALSE]

\* One iteration of the loop of RegionFinder.merge: the body of try, or the
\* except clause.  d is the disk; failed tells that the except clause ran.
MergePair(d, pair, r) ==
    IF ~d[pair.to_file].exists \/ ~d[pair.from_file].exists
    THEN [disk |-> d, failed |-> TRUE]
    ELSE LET t == McaFile(d[pair.to_file].data, <<>>)
         IN  IF t.raised THEN [disk |-> d, failed |-> TRUE]
             ELSE LET s == McaFile(d[pair.from_file].data, t.heap)
                  IN  IF s.raised THEN [disk |-> d, failed |-> TRUE]
                      ELSE LET merged == merge(t.chunk_map, s.chunk_map, r, s.heap)
                               w == write(merged, s.heap)
                           IN  [disk |-> [d EXCEPT ![pair.to_file] = File(w.to_write)],
                                failed |-> FALSE]

\* RegionFinder.merge(files, rule), from the k-th pair on: the disk
\* afterwards and the files written.
RECURSIVE RegionFinder_merge(_, _, _, _)
RegionFinder_merge(files, k, r, d) ==
    IF k > Len(files) THEN [disk |-> d, written |-> {}]
    ELSE LET one == MergePair(d, files[k], r)
             rest == RegionFinder_merge(files, k + 1, r, one.disk)
         IN  [disk |-> rest.disk,
              written |-> rest.written \cup
                  (IF one.failed THEN {} ELSE {files[k].to_file})]

\* RegionFinder.copy(files), from the k-th pair on
RECURSIVE RegionFinder_copy(_, _, _)
RegionFinder_copy(files, k, d) ==
    IF k > Len(files) THEN [disk |-> d, written |-> {}]
    ELSE LET pair == files[k]
             ok == d[pair.from_file].exists
             d2 == IF ok THEN [d EXCEPT ![pair.to_file] = File(d[pair.from_file].data)]
                   ELSE d
             rest == RegionFinder_copy(files, k + 1, d2)
         IN  [disk |-> rest.disk,
              written |-> rest.written \cup (IF ok THEN {pair.to_file} ELSE {})]

(***************************************************************************)
(* SpecFiles: RegionFinder.merge(files, rule) on a list of file pairs,     *)
(* one iteration of its loop per step.                                     *)
(***************************************************************************)
world1 == <<"target_world">>
world2 == <<"source_world">>

\* the region file r.0.k.mca of the main dimension of a world
RegionFile(world, k) ==
    PathJoin(PathJoin(PathJoin(world, ""), region_path), <<"r", 0, k, "mca">>)

OneSlot(t, size) ==
    [slots |-> [k \in 1..Len(Positions) |->
                   IF k = 1 THEN [present |-> TRUE, t |-> t, size |-> size] ELSE Absent],
     gap |-> 0]

\* a region file of the target world, one of the source world, and a file
\* that ends within its header
RegionA == RawFile(1, OneSlot(0, 1), 2, "all")
RegionB == RawFile(2, OneSlot(1, 2), 2, "all")
Truncated == RawFile(2, OneSlot(1, 2), 2, "header less a byte")

InitFiles ==
    \E n \in 1..MaxPairs :
    \E tdata \in [1..n -> {RegionA, RegionB, Truncated}],
       sdata \in [1..n -> {RegionB, Truncated}],
       r \in Rules :
        /\ pc = "merge"
        /\ disk = [p \in {RegionFile(world1, k) : k \in 1..n}
                         \cup {RegionFile(world2, k) : k \in 1..n} |->
                     IF p[1] = world1[1] THEN File(tdata[p[4][3]])
                     ELSE File(sdata[p[4][3]])]
        /\ run = [files |-> [k \in 1..n |->
                                FilePair(RegionFile(world2, k), RegionFile(world1, k))],
                  k |-> 1,
                  failed |-> {}]
        /\ rule = r
        /\ snap = [taken |-> TRUE,
                   disk |-> disk,
                   raises |-> [p \in DOMAIN disk |-> read_file(disk[p].data).raised]]
        /\ heap = <<>>
        /\ target = <<>>
        /\ source = <<>>

\* one iteration of "for pair in files"
MergeStep ==
    /\ pc = "merge"
    /\ run.k <= Len(run.files)
    /\ \E one \in {MergePair(disk, run.files[run.k], rule)} :
          /\ disk' = one.disk
          /\ run' = [run EXCEPT !.k = @ + 1,
                                !.failed = IF one.failed THEN @ \cup {run.k} ELSE @]
    /\ UNCHANGED <<pc, heap, target, source, rule, snap>>

\* the loop is over: RegionFinder.merge returns
MergeReturn ==
    /\ pc = "merge"
    /\ run.k > Len(run.files)
    /\ pc' = "returned"
    /\ UNCHANGED <<disk, heap, target, source, rule, snap, run>>

NextFiles == MergeStep \/ MergeReturn

SpecFiles == InitFiles /\ [][NextFiles]_vars

\* decoding the file at path, as it was before the call, fails
DecodeFails(path) == snap.raises[path]

\* C9: when decoding the target or the source file of a pair fails, the
\* target file is left byte for byte as it was and the failure is caught;
\* the loop goes on, so that the call returns only after every pair was
\* processed, and returns normally to merge_dimension.
C9_FailureScope ==
    /\ \A k \in 1..(run.k - 1) :
          (DecodeFails(run.files[k].to_file) \/ DecodeFails(run.files[k].from_file)) =>
              /\ k \in run.failed
              /\ disk[run.files[k].to_file] = snap.disk[run.files[k].to_file]
    /\ pc = "returned" => run.k = Len(run.files) + 1

C9_Witness ==
    /\ pc = "returned"
    /\ Len(run.files) = 2
    /\ run.failed = {1}
    /\ DecodeFails(run.files[1].from_file)
    /\ ~DecodeFails(run.files[1].to_file)
    /\ disk[run.files[2].to_file] # snap.disk[run.files[2].to_file]


(***************************************************************************)
(* SpecRun: RegionFinder.merge_worlds(rule), from main().  A step runs     *)
(* merge_dimension up to its call of input(), or from the answer on.       *)
(***************************************************************************)
Dimensions == <<"", "DIM1", "DIM-1">>

\* the file names a region directory of the model may hold, in the order
\* os.walk lists them
DirNames == <<<<"r", 0, 0, "mca">>, <<"r", 0, 0, "mcr">>>>

\* os.path.join(world, dimension, RegionFinder.region_path)
DimPath(world, dimension) == PathJoin(PathJoin(world, dimension), region_path)

RunPaths ==
    {PathJoin(DimPath(w, Dimensions[d]), DirNames[n]) :
        w \in {world1, world2}, d \in 1..Len(Dimensions), n \in 1..Len(DirNames)}

\* os.path.getsize(path)
getsize(d, path) == d[path].data.len

\* RegionFinder.list_mca_files(dim_path): the files of the directory that
\* end in .mca and are not empty, as tuples (file, path, path below world1).
\* A name occurs once in a directory, so that every list of map_files holds
\* one tuple and the flattened list has them in the order of the walk.
RECURSIVE ListLoop(_, _, _)
ListLoop(d, dim_path, n) ==
    IF n > Len(DirNames) THEN <<>>
    ELSE LET file == DirNames[n]
             path == PathJoin(dim_path, file)
         IN  (IF /\ d[path].exists
                 /\ EndsWithMca(file)
                 /\ getsize(d, path) > 0
              THEN <<PyTuple(<<PyStr(file), path, PathJoin(world1 \o dim_path, file)>>)>>
              ELSE <<>>)
             \o ListLoop(d, dim_path, n + 1)

list_mca_files(d, dim_path) == ListLoop(d, dim_path, 1)

\* name in f1: f1 is the list of tuples that list_mca_files returned
NameIn(name, f1) == PyIn(name, f1)

\* The loop of merge_dimension over f2.  f1[name] indexes a list by a
\* string, which raises TypeError.
RECURSIVE ClassifyLoop(_, _, _, _, _)
ClassifyLoop(f1, f2, k, world1_dim_path, st) ==
    IF k > Len(f2) \/ st.raised THEN st
    ELSE LET name == f2[k].val[1]
             from_file == f2[k].val[2]
         IN  IF NameIn(name, f1)
             THEN ClassifyLoop(f1, f2, k + 1, world1_dim_path,
                               [st EXCEPT !.raised = TRUE])
             ELSE ClassifyLoop(f1, f2, k + 1, world1_dim_path,
                    [st EXCEPT !.files_to_copy =
                        Append(@, FilePair(from_file,
                                           PathJoin(world1_dim_path, name.val)))])

\* merge_dimension(dimension, rule) up to the printing of the two lists
Classify(d, dimension) ==
    LET world1_dim_path == DimPath(world1, dimension)
        world2_dim_path == DimPath(world2, dimension)
        f1 == list_mca_files(d, world1_dim_path)
        f2 == list_mca_files(d, world2_dim_path)
    IN  ClassifyLoop(f1, f2, 1, world1_dim_path,
                     [files_to_copy |-> <<>>, files_to_merge |-> <<>>, raised |-> FALSE])

\* user_input.lower(), for the answers of the model
Lower(user_input) == IF user_input = "Y" THEN "y" ELSE user_input

\* Affirmative with a fault: an empty answer counts as the default that the
\* prompt shows, [Y/n]
AffirmativeMutant(user_input) == Lower(user_input) \in {"y", ""}

\* user_input.lower() == "y"
Affirmative(user_input) == Lower(user_input) = "y"

Answers == {"y", "Y", "n", "N", ""}

PerDimension(v) == [d \in 1..Len(Dimensions) |-> v]

InitRun ==
    \E t \in [1..Len(Dimensions) -> {"absent", "empty", "region"}],
       s \in [1..Len(Dimensions) -> {"absent", "empty", "region"}] :
        /\ pc = "merge_dimension"
        /\ disk = [p \in RunPaths |->
                     LET kind == IF p[1] = world1[1]
                                 THEN t[CHOOSE d \in 1..Len(Dimensions) : Dimensions[d] = p[2]]
                                 ELSE s[CHOOSE d \in 1..Len(Dimensions) : Dimensions[d] = p[2]]
                     IN  IF ~EndsWithMca(p[4])
                         THEN (IF p[1] = world2[1] THEN File(RegionB) ELSE NoFile)
                         ELSE IF kind = "absent" THEN NoFile
                         ELSE IF kind = "empty" THEN File(bytearray(0))
                         ELSE IF p[1] = world1[1] THEN File(RegionA)
                         ELSE File(RegionB)]
        /\ run = [d |-> 1,
                  files_to_copy |-> <<>>,
                  files_to_merge |-> <<>>,
                  prompts |-> PerDimension(0),
                  answer |-> PerDimension("none"),
                  lists |-> PerDimension([files_to_copy |-> <<>>,
                                          files_to_merge |-> <<>>,
                                          raised |-> FALSE]),
                  written |-> PerDimension({}),
                  order |-> <<>>]
        /\ rule = "last-modified"
        /\ snap = [taken |-> TRUE, disk |-> disk]
        /\ heap = <<>>
        /\ target = <<>>
        /\ source = <<>>

\* the call of merge_dimension that follows that for dimension d
AfterDimension(d) == IF d = Len(Dimensions) THEN "done" ELSE "merge_dimension"

\* merge_dimension(dimension, rule) up to the call of input(), or to its end
\* when there is nothing to copy and nothing to merge
MergeDimension ==
    /\ pc = "merge_dimension"
    /\ \E c \in {Classify(disk, Dimensions[run.d])} :
          IF c.raised
          THEN /\ pc' = "TypeError"
               /\ UNCHANGED run
          ELSE IF Len(c.files_to_copy) > 0 \/ Len(c.files_to_merge) > 0
          THEN /\ pc' = "input"
               /\ run' = [run EXCEPT !.files_to_copy = c.files_to_copy,
                                     !.files_to_merge = c.files_to_merge,
                                     !.lists[run.d] = c,
                                     !.order = Append(@, run.d),
                                     !.prompts[run.d] = @ + 1]
          ELSE /\ pc' = AfterDimension(run.d)
               /\ run' = [run EXCEPT !.files_to_copy = c.files_to_copy,
                                     !.files_to_merge = c.files_to_merge,
                                     !.lists[run.d] = c,
                                     !.order = Append(@, run.d),
                                     !.d = IF @ = Len(Dimensions) THEN @ ELSE @ + 1]
    /\ UNCHANGED <<disk, heap, target, source, rule, snap>>

\* input() returns user_input: the rest of merge_dimension
Input ==
    /\ pc = "input"
    /\ \E user_input \in Answers :
          /\ IF Affirmative(user_input)
             THEN \E c \in {RegionFinder_copy(run.files_to_copy, 1, disk)} :
                  \E m \in {RegionFinder_merge(run.files_to_merge, 1, rule, c.disk)} :
                      /\ disk' = m.disk
                      /\ run' = [run EXCEPT !.answer[run.d] = user_input,
                                            !.written[run.d] = c.written \cup m.written,
                                            !.d = IF @ = Len(Dimensions) THEN @ ELSE @ + 1]
             ELSE /\ disk' = disk
                  /\ run' = [run EXCEPT !.answer[run.d] = user_input,
                                        !.d = IF @ = Len(Dimensions) THEN @ ELSE @ + 1]
    /\ pc' = AfterDimension(run.d)
    /\ UNCHANGED <<heap, target, source, rule, snap>>

NextRun == MergeDimension \/ Input

SpecRun == InitRun /\ [][NextRun]_vars


(***************************************************************************)
(* Claims about the run, under SpecRun.                                    *)
(***************************************************************************)
Scanned == {run.order[k] : k \in 1..Len(run.order)}

Elements(seq) == {seq[k] : k \in 1..Len(seq)}

\* the file at path is a region file that list_mca_files must report
NonEmptyRegionFile(d, path) ==
    d[path].exists /\ EndsWithMca(path[4]) /\ d[path].data.len > 0

\* C1: every non-empty region file name of the source world's dimension
\* directory is merge-required, paired with the target path, if the target
\* world's dimension directory holds a non-empty file of that name, and is
\* copy-only otherwise; no name present in both is in the copy list.
C1_Classification ==
    \A d \in Scanned : \A n \in 1..Len(DirNames) :
        LET from_file == PathJoin(DimPath(world2, Dimensions[d]), DirNames[n])
            to_file == PathJoin(DimPath(world1, Dimensions[d]), DirNames[n])
            copies == Elements(run.lists[d].files_to_copy)
            merges == Elements(run.lists[d].files_to_merge)
        IN  NonEmptyRegionFile(snap.disk, from_file) =>
                IF NonEmptyRegionFile(snap.disk, to_file)
                THEN /\ FilePair(from_file, to_file) \in merges
                     /\ \A pair \in copies : pair.from_file # from_file
                ELSE /\ FilePair(from_file, to_file) \in copies
                     /\ \A pair \in merges : pair.from_file # from_file

\* the files of dimension d are as they were when the run began
Untouched(d) ==
    /\ run.written[d] = {}
    /\ \A p \in RunPaths : p[2] = Dimensions[d] => disk[p] = snap.disk[p]

\* C10: for each dimension, the prompt is issued once if there is a file to
\* copy or to merge and never otherwise; no file of the dimension is written
\* before the answer; its files are written only on an affirmative answer; a
\* declined or skipped dimension writes nothing; and the dimensions are
\* processed in order, all three of them.
C10_PromptPerDimension ==
    /\ \A d \in 1..Len(Dimensions) :
          /\ run.prompts[d] =
                IF /\ d \in Scanned
                   /\ \/ Len(run.lists[d].files_to_copy) > 0
                      \/ Len(run.lists[d].files_to_merge) > 0
                THEN 1 ELSE 0
          /\ (run.answer[d] = "none") = ~(run.prompts[d] = 1 /\ (run.d > d \/ pc = "done"))
          /\ (pc = "input" /\ run.d = d) => Untouched(d)
          /\ run.answer[d] \notin {"y", "Y"} => Untouched(d)
    /\ run.order = SubSeq(<<1, 2, 3>>, 1, Len(run.order))
    /\ pc = "done" => Len(run.order) = Len(Dimensions)
    /\ pc \in {"merge_dimension", "input", "done"}

C10_Witness ==
    /\ pc = "done"
    /\ run.prompts = <<1, 0, 1>>
    /\ run.answer[1] = "n"
    /\ run.answer[3] = "Y"
    /\ run.written[3] # {}
    /\ ~Untouched(3)

====
